---- MODULE Spec2Model ----
(***************************************************************************)
(* Model of featuretools/entityset/serialization.py: the writer            *)
(* (write_data_description, write_entity_data, to_entity_description,      *)
(* to_relationship_description) and the reader (read_data_description,     *)
(* from_entity_description, read_entity_data, empty_dataframe,             *)
(* from_variable_description, from_relationship_description).              *)
(*                                                                         *)
(* A cell of a table is [kind, text]: kind is the Python type of the       *)
(* value ("int", "str", "tuple"; "text" for undecoded characters of a csv  *)
(* file) and text is str(value).  A column label has the same shape.  A    *)
(* table (DataFrame) is a sequence of columns [label, dtype, cells].       *)
(* A directory tree is the set of the paths it holds, each path the        *)
(* sequence of its components below the target path (<<>> is the target).  *)
(***************************************************************************)
EXTENDS Integers, Sequences, FiniteSets, TLC

VARIABLES
    entityset,      \* the caller's in-memory collection (tables are mutable)
    entityset0,     \* the collection as it was before the write (never changes)
    kwargs,         \* keyword arguments of write_data_description
    pc,             \* position of write_data_description
    i,              \* number of entities of the loop at lines 115-117 already written
    description,    \* the writer's local `description`
    err,            \* the error write_data_description raised, "" if none
    fs,             \* paths present at the target
    oldfs,          \* paths present at the target before the write (never changes)
    tablefiles,     \* contents of the table files, by path
    manifest,       \* contents of data_description.json
    rdesc,          \* the reader's loaded description (a mutable dict)
    es2,            \* the collection the reader fills: entity id -> entity
    rels2,          \* the Relationships resolved for es2
    last            \* the reader operation last applied, its input and its outcome

vars == <<entityset, entityset0, kwargs, pc, i, description, err, fs, oldfs,
          tablefiles, manifest, rdesc, es2, rels2, last>>

writerVars == <<entityset, kwargs, pc, i, description, err, fs, tablefiles, manifest>>
readerVars == <<rdesc, es2, rels2, last>>

\* Largest number of entities of a collection.
MaxEntities == 2

\* Entity identifiers, in the order collections use them.
IdPool == <<"e1", "e2", "e3", "e4">>

----------------------------------------------------------------------------
(* Generic helpers on functions used as Python dicts.                      *)

EmptyDict == [k \in {} |-> ""]

Restrict(d, keys) == [k \in (DOMAIN d) \cap keys |-> d[k]]

\* dict.update: the keys of `new` replace or extend those of `old`.
DictUpdate(old, new) ==
    [k \in (DOMAIN old) \cup (DOMAIN new) |-> IF k \in DOMAIN new THEN new[k] ELSE old[k]]

Range(s) == {s[k] : k \in DOMAIN s}

----------------------------------------------------------------------------
(* Values, columns and tables.                                             *)

Cell(kind, text) == [kind |-> kind, text |-> text]

Column(label, dtype, cells) == [label |-> label, dtype |-> dtype, cells |-> cells]

\* Texts that pandas parses as integers.
IntTexts == {"0", "1", "2", "7"}

\* astype('unicode') of one value: str(value).
Unicode(c) == Cell("str", c.text)

\* A variable [id, tag, options, interesting_values]; the type tag is the
\* type_string of its class, options are its class's construction parameters.
Variable(id, tag, options) ==
    [id |-> id, tag |-> tag, options |-> options, interesting_values |-> <<>>]

IdColumn == Column(Cell("str", "id"), "int64", <<Cell("int", "1"), Cell("int", "2")>>)

\* The tables collections are drawn from: an index column and a column v of
\* integers, of text that reads as digits, of text, or of tuples; the last
\* one has a column no variable declares, labelled by the integer 7.
TableSamples == <<
    [columns |-> <<IdColumn,
                   Column(Cell("str", "v"), "int64", <<Cell("int", "1"), Cell("int", "2")>>)>>,
     v |-> Variable("v", "numeric", [option |-> "1"])],
    [columns |-> <<IdColumn,
                   Column(Cell("str", "v"), "object", <<Cell("str", "1"), Cell("str", "2")>>)>>,
     v |-> Variable("v", "numeric", EmptyDict)],
    [columns |-> <<IdColumn,
                   Column(Cell("str", "v"), "object", <<Cell("str", "a"), Cell("str", "b")>>)>>,
     v |-> Variable("v", "categorical", EmptyDict)],
    [columns |-> <<IdColumn,
                   Column(Cell("str", "v"), "object",
                          <<Cell("tuple", "(1, 2)"), Cell("str", "a")>>)>>,
     v |-> Variable("v", "categorical", EmptyDict)],
    [columns |-> <<Column(Cell("int", "7"), "int64", <<Cell("int", "1"), Cell("int", "2")>>),
                   Column(Cell("str", "v"), "object", <<Cell("str", "a"), Cell("str", "a")>>),
                   IdColumn>>,
     v |-> Variable("v", "categorical", EmptyDict)]
>>

\* An entity over sample s.
Entity(id, s) ==
    [id |-> id,
     index |-> "id",
     time_index |-> "None",
     secondary_time_index |-> EmptyDict,
     last_time_index |-> "None",
     variables |-> <<Variable("id", "index", EmptyDict), TableSamples[s].v>>,
     df |-> [columns |-> TableSamples[s].columns]]

\* A relationship: the parent's index variable and the child's foreign key.
Relationship(parent, child) == [parent |-> parent, child |-> child]

\* The collection of n entities whose tables are the samples from offset
\* `first` on, with the first r parent/child links of the chain e1 <- e2 <- ...
Collection(n, first, r) ==
    [entities |-> [k \in 1..n |-> Entity(IdPool[k], ((first + k - 2) % Len(TableSamples)) + 1)],
     relationships |-> [k \in 1..r |->
         Relationship(<<IdPool[k], "id">>, <<IdPool[k + 1], "v">>)]]

CollectionShapes ==
    {t \in (0..MaxEntities) \X (1..Len(TableSamples)) \X (0..MaxEntities) :
        /\ t[3] < t[1] \/ t[3] = 0
        /\ t[1] = 0 => t[2] = 1}

Collections == {Collection(t[1], t[2], t[3]) : t \in CollectionShapes}

----------------------------------------------------------------------------
(* Schema builder: lines 17-60.                                            *)

\* The type field of a variable fragment: a bare string, or a dict.
TypeString(tag) == [is_str |-> TRUE, str |-> tag, dict |-> EmptyDict]
TypeDict(d) == [is_str |-> FALSE, str |-> "", dict |-> d]

\* Variable.to_data_description: {type: tag} when the variable has no
\* construction parameters, {type: {value: tag, ...options}} when it has.
to_variable_description(variable) ==
    [id |-> variable.id,
     type |-> IF variable.options = EmptyDict
              THEN TypeString(variable.tag)
              ELSE TypeDict(DictUpdate([value |-> variable.tag], variable.options)),
     properties |-> [interesting_values |-> variable.interesting_values]]

\* df.columns.isin(ids): a label is a declared variable when it equals an id,
\* and ids are strings.
IsDeclared(entity, column) ==
    /\ column.label.kind = "str"
    /\ column.label.text \in {entity.variables[k].id : k \in DOMAIN entity.variables}

\* Mutant: the dtype map records every declared column as object.
RecordedDtypes_Object(entity) ==
    LET cols == {c \in Range(entity.df.columns) : IsDeclared(entity, c)}
    IN  [l \in {c.label.text : c \in cols} |-> "object"]

\* Lines 26-27: the dtype of every column that is a declared variable.
RecordedDtypes(entity) ==
    LET cols == {c \in Range(entity.df.columns) : IsDeclared(entity, c)}
    IN  [l \in {c.label.text : c \in cols} |->
            (CHOOSE c \in cols : c.label.text = l).dtype]

to_entity_description(entity) ==
    [id |-> entity.id,
     index |-> entity.index,
     time_index |-> entity.time_index,
     properties |-> [secondary_time_index |-> entity.secondary_time_index,
                     last_time_index |-> entity.last_time_index # "None"],
     variables |-> [k \in DOMAIN entity.variables |->
                        to_variable_description(entity.variables[k])],
     loading_info |-> [params |-> EmptyDict,
                       properties |-> [dtypes |-> RecordedDtypes(entity)]]]

to_relationship_description(relationship) ==
    [parent |-> <<relationship.parent[1], relationship.parent[2]>>,
     child |-> <<relationship.child[1], relationship.child[2]>>]

\* EntitySet.to_data_description: one fragment per entity, by id, and the
\* relationship fragments.
to_data_description(es) ==
    [entities |-> [id \in {es.entities[k].id : k \in DOMAIN es.entities} |->
        to_entity_description(CHOOSE e \in Range(es.entities) : e.id = id)],
     relationships |-> [k \in DOMAIN es.relationships |->
        to_relationship_description(es.relationships[k])]]

----------------------------------------------------------------------------
(* Table codec, writing: lines 63-98.                                      *)

FORMATS == <<"csv", "pickle", "parquet">>

\* str.lower on the format tags callers pass.
Lower(s) ==
    CASE s = "CSV" -> "csv"
      [] s = "PARQUET" -> "parquet"
      [] s = "PICKLE" -> "pickle"
      [] OTHER -> s

\* ', '.join(strings)
RECURSIVE Join(_)
Join(strings) ==
    IF Len(strings) = 0 THEN ""
    ELSE IF Len(strings) = 1 THEN strings[1]
    ELSE strings[1] \o ", " \o Join(Tail(strings))

FormatError == "must be one of the following formats: " \o Join(FORMATS)

\* Line 75 with the default of line 63.
FormatOf(kw) == Lower(IF "format" \in DOMAIN kw THEN kw["format"] ELSE "csv")

\* **kwargs of write_entity_data: the caller's keywords but `format`.
WriterKwargs(kw) == Restrict(kw, (DOMAIN kw) \ {"format"})

\* Lines 76-78.
Basename(entity, kw) ==
    LET basename == entity.id \o "." \o FormatOf(kw)
    IN  IF "compression" \in DOMAIN kw
        THEN basename \o "." \o kw["compression"]
        ELSE basename

\* Line 79: os.path.join('data', basename).
Location(entity, kw) == "data/" \o Basename(entity, kw)

\* Line 80, as a path below the target.
TableFile(entity, kw) == <<"data", Basename(entity, kw)>>

RowTexts == <<"0", "1", "2", "3">>

\* DataFrame.to_csv: every label and value is written as its characters,
\* preceded by the row index, whose header is empty.  Line 83 passes only
\* index and encoding on, so the file is never compressed.
to_csv(df) ==
    LET n == IF Len(df.columns) = 0 THEN 0 ELSE Len(df.columns[1].cells)
        index == Column(Cell("text", ""), "text", [r \in 1..n |-> Cell("text", RowTexts[r])])
        text(c) == Column(Cell("text", c.label.text), "text",
                          [r \in DOMAIN c.cells |-> Cell("text", c.cells[r].text)])
    IN  [type |-> "csv", compression |-> "None",
         columns |-> <<index>> \o [k \in DOMAIN df.columns |-> text(df.columns[k])]]

\* Lines 89-91: object columns cast to unicode, labels cast to unicode.
ParquetCoerced(df) ==
    LET cast(c) == Column(Unicode(c.label), c.dtype,
                          IF c.dtype = "object"
                          THEN [r \in DOMAIN c.cells |-> Unicode(c.cells[r])]
                          ELSE c.cells)
    IN  [columns |-> [k \in DOMAIN df.columns |-> cast(df.columns[k])]]

\* The snapshot a binary writer stores, with the compression it was given.
Stored(type, df, kw) ==
    [type |-> type,
     compression |-> IF "compression" \in DOMAIN kw THEN kw["compression"] ELSE "None",
     columns |-> df.columns]

\* write_entity_data(entity, path, **kw): whether it raised, the table it
\* leaves in entity.df, the file it wrote and the loading info it returns.
write_entity_data(entity, kw) ==
    LET format == FormatOf(kw)
        kwargs_ == WriterKwargs(kw)
        info == [location |-> Location(entity, kw), type |-> format, params |-> kwargs_]
        ok(df, content) == [raised |-> FALSE, error |-> "", df |-> df, file |-> <<content>>,
                            loading_info |-> info]
    IN  CASE format = "csv" -> ok(entity.df, to_csv(entity.df))
          [] format = "parquet" ->
                ok(ParquetCoerced(entity.df),
                   Stored("parquet", ParquetCoerced(entity.df), kwargs_))
          [] format = "pickle" -> ok(entity.df, Stored("pickle", entity.df, kwargs_))
          [] OTHER -> [raised |-> TRUE, error |-> FormatError, df |-> entity.df,
                       file |-> <<>>, loading_info |-> info]

----------------------------------------------------------------------------
(* The target directory and the inputs of a run.                           *)

Root == <<>>
DataDir == <<"data">>
ManifestPath == <<"data_description.json">>

Parent(p) == SubSeq(p, 1, Len(p) - 1)

NoManifest == [entities |-> EmptyDict, relationships |-> <<>>]

NoFiles == [p \in {} |-> <<>>]

\* An entity saved earlier by a writer whose registry knew the type
\* "mystery": one variable names it as a bare string, one as a dict.
LegacyEntity ==
    [id |-> "legacy",
     index |-> "id",
     time_index |-> "None",
     secondary_time_index |-> EmptyDict,
     last_time_index |-> "None",
     variables |-> <<Variable("id", "index", EmptyDict),
                     Variable("w", "mystery", EmptyDict),
                     Variable("u", "mystery", [fancy |-> "1"])>>,
     df |-> [columns |-> <<IdColumn,
                           Column(Cell("str", "w"), "object", <<Cell("str", "a"), Cell("str", "b")>>),
                           Column(Cell("str", "u"), "int64", <<Cell("int", "1"), Cell("int", "2")>>)>>]]

LegacyManifest ==
    LET w == write_entity_data(LegacyEntity, EmptyDict)
        d == to_entity_description(LegacyEntity)
    IN  [entities |-> [id \in {"legacy"} |->
            [d EXCEPT !.loading_info = DictUpdate(d.loading_info, w.loading_info)]],
         relationships |-> <<>>]

\* What the target may hold before the write: nothing, an unrelated tree,
\* or an earlier save.
OldTrees == {
    [fs |-> {}, tablefiles |-> NoFiles, manifest |-> NoManifest],
    [fs |-> {Root, <<"notes.txt">>, <<"old">>, <<"old", "stale.bin">>},
     tablefiles |-> NoFiles, manifest |-> NoManifest],
    [fs |-> {Root, DataDir, TableFile(LegacyEntity, EmptyDict), ManifestPath},
     tablefiles |-> [p \in {TableFile(LegacyEntity, EmptyDict)} |->
                        write_entity_data(LegacyEntity, EmptyDict).file[1]],
     manifest |-> LegacyManifest]
}

\* The keyword arguments callers pass: a format or none, a compression or none.
KwargsSet ==
    {DictUpdate(f, c) :
        f \in {EmptyDict} \cup {[format |-> x] : x \in {"CSV", "parquet", "pickle", "xml"}},
        c \in {EmptyDict, [compression |-> "gzip"]}}

NoDescription == NoManifest

NoLast == [op |-> "none", status |-> "none"]

Init ==
    /\ entityset \in Collections
    /\ entityset0 = entityset
    /\ kwargs \in KwargsSet
    /\ pc = "start"
    /\ i = 0
    /\ description = NoDescription
    /\ err = ""
    /\ \E old \in OldTrees :
        /\ fs = old.fs
        /\ tablefiles = old.tablefiles
        /\ manifest = old.manifest
    /\ oldfs = fs
    /\ rdesc = [loaded |-> FALSE, root |-> "", from_disk |-> FALSE, entities |-> EmptyDict, relationships |-> <<>>]
    /\ es2 = EmptyDict
    /\ rels2 = {}
    /\ last = NoLast

----------------------------------------------------------------------------
(* Manifest writer: write_data_description, lines 101-120.                 *)

\* Mutant: the target is never reset.
Exists_NoReset ==
    /\ pc = "start"
    /\ last = [op |-> "none", status |-> "none"]
    /\ pc' = "makedirs"
    /\ UNCHANGED <<entityset, kwargs, i, description, err, fs, tablefiles, manifest>>
    /\ UNCHANGED <<readerVars, entityset0, oldfs>>

\* Line 110: os.path.exists(path).  A caller that has begun to load what
\* the target holds does not then save to it.
Exists ==
    /\ pc = "start"
    /\ last = NoLast
    /\ pc' = IF Root \in fs THEN "rmtree" ELSE "makedirs"
    /\ UNCHANGED <<entityset, kwargs, i, description, err, fs, tablefiles, manifest>>
    /\ UNCHANGED <<readerVars, entityset0, oldfs>>

Remove(p) ==
    /\ fs' = fs \ {p}
    /\ tablefiles' = [q \in (DOMAIN tablefiles) \ {p} |-> tablefiles[q]]
    /\ manifest' = IF p = ManifestPath THEN NoManifest ELSE manifest

\* Line 111: shutil.rmtree removes the entries one at a time, children
\* before their directory, the target last.
Rmtree ==
    /\ pc = "rmtree"
    /\ \E p \in fs :
        /\ \A q \in fs : q # Root => Parent(q) # p \/ q = p
        /\ p = Root => fs = {Root}
        /\ Remove(p)
        /\ pc' = IF p = Root THEN "makedirs" ELSE "rmtree"
    /\ UNCHANGED <<entityset, kwargs, i, description, err>>
    /\ UNCHANGED <<readerVars, entityset0, oldfs>>

\* Lines 112-113: os.makedirs(path), then os.makedirs(path/data).
MakeDirs ==
    /\ pc \in {"makedirs", "makedirs_data"}
    /\ fs' = fs \cup {IF pc = "makedirs" THEN Root ELSE DataDir}
    /\ pc' = IF pc = "makedirs" THEN "makedirs_data" ELSE "describe"
    /\ UNCHANGED <<entityset, kwargs, i, description, err, tablefiles, manifest>>
    /\ UNCHANGED <<readerVars, entityset0, oldfs>>

\* Line 114.
Describe ==
    /\ pc = "describe"
    /\ description' = to_data_description(entityset)
    /\ pc' = "loop"
    /\ UNCHANGED <<entityset, kwargs, i, err, fs, tablefiles, manifest>>
    /\ UNCHANGED <<readerVars, entityset0, oldfs>>

\* Mutant: the returned loading info replaces the fragment's.
MergeLoadingInfo_Replace(fragment, loading_info) ==
    [fragment EXCEPT !.loading_info = loading_info]

\* Line 117: description['entities'][id]['loading_info'].update(loading_info).
MergeLoadingInfo(fragment, loading_info) ==
    [fragment EXCEPT !.loading_info = DictUpdate(fragment.loading_info, loading_info)]

\* Lines 115-117, one iteration; an error of write_entity_data ends the call.
WriteEntity ==
    /\ pc = "loop"
    /\ i < Len(entityset.entities)
    /\ LET entity == entityset.entities[i + 1]
           w == write_entity_data(entity, kwargs)
       IN  IF w.raised
           THEN /\ pc' = "raised"
                /\ err' = w.error
                /\ UNCHANGED <<entityset, i, description, fs, tablefiles>>
           ELSE /\ entityset' = [entityset EXCEPT !.entities[i + 1].df = w.df]
                /\ fs' = fs \cup {TableFile(entity, kwargs)}
                /\ tablefiles' =
                     [p \in (DOMAIN tablefiles) \cup {TableFile(entity, kwargs)} |->
                        IF p = TableFile(entity, kwargs) THEN w.file[1] ELSE tablefiles[p]]
                /\ description' =
                     [description EXCEPT !.entities[entity.id] =
                        MergeLoadingInfo(description.entities[entity.id], w.loading_info)]
                /\ i' = i + 1
                /\ UNCHANGED <<pc, err>>
    /\ UNCHANGED <<kwargs, manifest>>
    /\ UNCHANGED <<readerVars, entityset0, oldfs>>

\* Mutant: the manifest is written before the loop over the entities ends.
Dump_Early ==
    /\ pc = "loop"
    /\ ManifestPath \notin fs
    /\ manifest' = description
    /\ fs' = fs \cup {ManifestPath}
    /\ pc' = IF i = Len(entityset.entities) THEN "done" ELSE "loop"
    /\ UNCHANGED <<entityset, kwargs, i, description, err, tablefiles>>
    /\ UNCHANGED <<readerVars, entityset0, oldfs>>

\* Lines 118-120: json.dump of the description.  Every value of a
\* description is a string, a boolean, a list or a dict with string keys,
\* which JSON stores as they are.
Dump ==
    /\ pc = "loop"
    /\ i = Len(entityset.entities)
    /\ manifest' = description
    /\ fs' = fs \cup {ManifestPath}
    /\ pc' = "done"
    /\ UNCHANGED <<entityset, kwargs, i, description, err, tablefiles>>
    /\ UNCHANGED <<readerVars, entityset0, oldfs>>

write_data_description == Exists \/ Rmtree \/ MakeDirs \/ Describe \/ WriteEntity \/ Dump

----------------------------------------------------------------------------
(* Type registry and from_variable_description: lines 11-14, 123-140.      *)

\* The classes of variable_types that have a type_string; the base class
\* Variable has the type_string None.
VariableClasses == {
    [cls |-> "Variable", type_string |-> "None"],
    [cls |-> "Index", type_string |-> "index"],
    [cls |-> "Id", type_string |-> "id"],
    [cls |-> "Numeric", type_string |-> "numeric"],
    [cls |-> "Categorical", type_string |-> "categorical"]
}

\* What dict.get returns for a missing key when no default exists.
NoneType == [cls |-> "NoneType", type_string |-> "None"]

\* Lines 11-14: type_string -> class.
VARIABLE_TYPES ==
    [t \in {c.type_string : c \in VariableClasses} |->
        CHOOSE c \in VariableClasses : c.type_string = t]

\* dict.get(key, default)
Get(d, key, default) == IF key \in DOMAIN d THEN d[key] ELSE default

\* Mutant: an unregistered tag has no fallback.
LookupType_Strict(type) == Get(VARIABLE_TYPES, type, NoneType)

\* Line 135.
LookupType(type) == Get(VARIABLE_TYPES, type, Get(VARIABLE_TYPES, "None", NoneType))

\* Mutant: 'value' is read and left in the dict.
PopValue_Keep(type) == type

\* Line 134, the dict case: description['type'].pop('value') removes the key
\* from the fragment's own dict.
PopValue(type) == TypeDict(Restrict(type.dict, (DOMAIN type.dict) \ {"value"}))

\* Line 137: the construction keywords.
ConstructionKwargs(is_type_string, type) == IF is_type_string THEN EmptyDict ELSE type.dict

\* from_variable_description(description, entity): whether it raised, the
\* class or (with an entity) the instance it returns, and the fragment as
\* the call leaves it.  entity is "None" or the id of a registered entity.
from_variable_description(fragment, entity) ==
    LET is_type_string == fragment.type.is_str
        missing == ~is_type_string /\ "value" \notin DOMAIN fragment.type.dict
        type == IF is_type_string THEN fragment.type.str ELSE fragment.type.dict["value"]
        popped == IF is_type_string THEN fragment.type ELSE PopValue(fragment.type)
        variable == LookupType(type)
    IN  IF missing
        THEN [raised |-> TRUE, error |-> "KeyError", description |-> fragment]
        ELSE IF entity = "None"
        THEN [raised |-> FALSE, error |-> "", description |-> [fragment EXCEPT !.type = popped],
              variable |-> variable, instance |-> FALSE]
        ELSE IF variable = NoneType
        THEN [raised |-> TRUE, error |-> "TypeError",
              description |-> [fragment EXCEPT !.type = popped]]
        ELSE [raised |-> FALSE, error |-> "", description |-> [fragment EXCEPT !.type = popped],
              variable |-> variable, instance |-> TRUE,
              id |-> fragment.id,
              kwargs |-> ConstructionKwargs(is_type_string, popped),
              interesting_values |-> fragment.properties.interesting_values]

----------------------------------------------------------------------------
(* Table codec, reading: lines 180-221.                                    *)

\* DataFrame.astype(dtype) of one value.
CastFails(c, dtype) ==
    dtype = "int64" /\ (c.kind = "tuple" \/ (c.kind # "int" /\ c.text \notin IntTexts))

CastCell(c, dtype) == IF dtype = "int64" THEN Cell("int", c.text) ELSE c

\* DataFrame.astype(dtypes): every key must be a column; every column named
\* is cast, the others are kept.
astype(df, dtypes) ==
    LET labels == {c.label.text : c \in {x \in Range(df.columns) : x.label.kind = "str"}}
        named(c) == c.label.kind = "str" /\ c.label.text \in DOMAIN dtypes
        fails(c) == named(c) /\ \E r \in DOMAIN c.cells : CastFails(c.cells[r], dtypes[c.label.text])
        cast(c) == IF named(c)
                   THEN Column(c.label, dtypes[c.label.text],
                               [r \in DOMAIN c.cells |-> CastCell(c.cells[r], dtypes[c.label.text])])
                   ELSE c
    IN  IF ~((DOMAIN dtypes) \subseteq labels)
        THEN [raised |-> TRUE, error |-> "KeyError"]
        ELSE IF \E c \in Range(df.columns) : fails(c)
        THEN [raised |-> TRUE, error |-> "ValueError"]
        ELSE [raised |-> FALSE, error |-> "",
              df |-> [columns |-> [k \in DOMAIN df.columns |-> cast(df.columns[k])]]]

\* Lines 189-191.
empty_dataframe(fragment) ==
    LET columns == [k \in DOMAIN fragment.variables |->
                        Column(Cell("str", fragment.variables[k].id), "object", <<>>)]
    IN  astype([columns |-> columns], fragment.loading_info.properties.dtypes)

\* pandas.read_csv: the header names the columns, an empty header reads as
\* "Unnamed: 0"; a column whose every value reads as an integer is int64,
\* any other column is object and holds the characters as str.
read_csv(file) ==
    LET integral(c) == Len(c.cells) > 0 /\ \A r \in DOMAIN c.cells : c.cells[r].text \in IntTexts
        label(c) == Cell("str", IF c.label.text = "" THEN "Unnamed: 0" ELSE c.label.text)
        infer(c) == IF integral(c)
                    THEN Column(label(c), "int64",
                                [r \in DOMAIN c.cells |-> Cell("int", c.cells[r].text)])
                    ELSE Column(label(c), "object",
                                [r \in DOMAIN c.cells |-> Cell("str", c.cells[r].text)])
    IN  [columns |-> [k \in DOMAIN file.columns |-> infer(file.columns[k])]]

\* os.path.join of the components of a path below the target.
PathString(p) == IF Len(p) = 2 THEN p[1] \o "/" \o p[2] ELSE IF Len(p) = 1 THEN p[1] ELSE ""

\* read_entity_data(description, path) against the files at the target.
read_entity_data(fragment, files, contents) ==
    LET info == fragment.loading_info
        found == {p \in files \cap DOMAIN contents : PathString(p) = info.location}
        file == contents[CHOOSE p \in found : TRUE]
        kwargs_ == Get(info, "params", EmptyDict)
        \* the compression the reader assumes: the one passed, else the one
        \* the file name's extension implies, and .csv and .pickle imply none
        compression == Get(kwargs_, "compression", "None")
        dtypes == info.properties.dtypes
    IN  IF info.type \notin {"csv", "parquet", "pickle"}
        THEN [raised |-> TRUE, error |-> FormatError]
        ELSE IF found = {}
        THEN [raised |-> TRUE, error |-> "IOError"]
        ELSE IF file.type # info.type
        THEN [raised |-> TRUE, error |-> "IOError"]
        ELSE CASE info.type = "csv" ->
                    IF compression # file.compression
                    THEN [raised |-> TRUE, error |-> "IOError"]
                    ELSE astype(read_csv(file), dtypes)
               [] info.type = "parquet" -> astype([columns |-> file.columns], dtypes)
               [] info.type = "pickle" ->
                    IF compression # file.compression
                    THEN [raised |-> TRUE, error |-> "IOError"]
                    ELSE astype([columns |-> file.columns], dtypes)

----------------------------------------------------------------------------
(* Manifest reader: lines 143-177, 224-239.  The core is single-threaded:  *)
(* a caller reads before a write starts or after it has returned.          *)

Idle == pc \in {"start", "done", "raised"}

\* read_data_description(path), and the caller's new, empty EntitySet that
\* the description is then loaded into, from the files (path = root) or as
\* empty tables (path = None).
ReadDataDescription ==
    /\ Idle
    /\ \E from_disk \in BOOLEAN :
       IF Root \notin fs
       THEN /\ last' = [op |-> "read", status |-> "AssertionError"]
            /\ UNCHANGED <<rdesc, es2, rels2>>
       ELSE IF ManifestPath \notin fs
       THEN /\ last' = [op |-> "read", status |-> "IOError"]
            /\ UNCHANGED <<rdesc, es2, rels2>>
       ELSE /\ rdesc' = [loaded |-> TRUE, root |-> "path", from_disk |-> from_disk,
                         entities |-> manifest.entities,
                         relationships |-> manifest.relationships]
            /\ es2' = EmptyDict
            /\ rels2' = {}
            /\ last' = [op |-> "read", status |-> "ok"]
    /\ UNCHANGED <<writerVars, entityset0, oldfs>>

\* Line 153: from_variable_description(variable) for each variable in turn,
\* from the k-th on: the classes by variable id, and the variables as the
\* calls leave them.
RECURSIVE VariableTypes(_, _)
VariableTypes(variables, k) ==
    IF k > Len(variables)
    THEN [raised |-> FALSE, error |-> "", variables |-> variables, types |-> <<>>]
    ELSE LET r == from_variable_description(variables[k], "None")
         IN  IF r.raised
             THEN [raised |-> TRUE, error |-> r.error,
                   variables |-> [variables EXCEPT ![k] = r.description], types |-> <<>>]
             ELSE LET rest == VariableTypes([variables EXCEPT ![k] = r.description], k + 1)
                  IN  [rest EXCEPT !.types =
                          <<[id |-> variables[k].id, type |-> r.variable]>> \o rest.types]

\* EntitySet.entity_from_dataframe: the entity registered under its id.
entity_from_dataframe(id, dataframe, index, time_index, secondary_time_index, variable_types) ==
    [id |-> id, df |-> dataframe, index |-> index, time_index |-> time_index,
     secondary_time_index |-> secondary_time_index, variables |-> variable_types]

\* from_entity_description(description, entityset, path): path is the root
\* the description was read from, or None.
FromEntityDescription ==
    /\ Idle
    /\ rdesc.loaded
    /\ \E id \in DOMAIN rdesc.entities :
        LET fragment == rdesc.entities[id]
            from_disk == rdesc.from_disk
            data == IF from_disk THEN read_entity_data(fragment, fs, tablefiles)
                    ELSE empty_dataframe(fragment)
            vt == VariableTypes(fragment.variables, 1)
            call == [op |-> "entity", id |-> id, from_disk |-> from_disk, input |-> fragment]
        IN  IF data.raised
            THEN /\ last' = DictUpdate(call, [status |-> data.error])
                 /\ UNCHANGED <<rdesc, es2>>
            ELSE /\ rdesc' = [rdesc EXCEPT !.entities[id].variables = vt.variables]
                 /\ IF vt.raised
                    THEN /\ last' = DictUpdate(call, [status |-> vt.error])
                         /\ UNCHANGED es2
                    ELSE /\ last' = DictUpdate(call, [status |-> "ok"])
                         /\ es2' = DictUpdate(es2, [x \in {id} |->
                                entity_from_dataframe(
                                    fragment.id, data.df,
                                    Get(fragment, "index", "None"),
                                    Get(fragment, "time_index", "None"),
                                    Get(fragment.properties, "secondary_time_index", "None"),
                                    vt.types)])
    /\ UNCHANGED rels2
    /\ UNCHANGED <<writerVars, entityset0, oldfs>>

\* entityset[entity][variable]: both lookups raise KeyError on a miss.
Registered(es, endpoint) ==
    /\ endpoint[1] \in DOMAIN es
    /\ endpoint[2] \in {es[endpoint[1]].variables[k].id : k \in DOMAIN es[endpoint[1]].variables}

\* Mutant: the parent and the child handles change places.
from_relationship_description_swapped(fragment, es) ==
    IF ~Registered(es, fragment.parent) \/ ~Registered(es, fragment.child)
    THEN [raised |-> TRUE, error |-> "KeyError"]
    ELSE [raised |-> FALSE, error |-> "",
          relationship |-> Relationship(<<fragment.child[1], fragment.child[2]>>,
                                        <<fragment.parent[1], fragment.parent[2]>>)]

\* from_relationship_description(description, entityset)
from_relationship_description(fragment, es) ==
    IF ~Registered(es, fragment.parent) \/ ~Registered(es, fragment.child)
    THEN [raised |-> TRUE, error |-> "KeyError"]
    ELSE [raised |-> FALSE, error |-> "",
          relationship |-> Relationship(<<fragment.parent[1], fragment.parent[2]>>,
                                        <<fragment.child[1], fragment.child[2]>>)]

\* The (entity id, variable id) pairs a collection holds.
Handles(es) == UNION {{<<id, es[id].variables[k].id>> : k \in DOMAIN es[id].variables} : id \in DOMAIN es}

FromRelationshipDescription ==
    /\ Idle
    /\ rdesc.loaded
    /\ \E k \in DOMAIN rdesc.relationships :
        LET r == from_relationship_description(rdesc.relationships[k], es2)
            call == [op |-> "relationship", input |-> rdesc.relationships[k],
                     handles |-> Handles(es2)]
        IN  IF r.raised
            THEN /\ last' = DictUpdate(call, [status |-> r.error])
                 /\ UNCHANGED rels2
            ELSE /\ last' = DictUpdate(call, [status |-> "ok", result |-> r.relationship])
                 /\ rels2' = rels2 \cup {r.relationship}
    /\ UNCHANGED <<rdesc, es2>>
    /\ UNCHANGED <<writerVars, entityset0, oldfs>>

\* from_variable_description(description, entity) on a variable fragment of
\* the loaded description, with a registered entity supplied.
FromVariableDescription ==
    /\ Idle
    /\ rdesc.loaded
    /\ es2 # EmptyDict
    /\ \E id \in DOMAIN rdesc.entities :
       \E k \in DOMAIN rdesc.entities[id].variables :
        LET fragment == rdesc.entities[id].variables[k]
            entity == CHOOSE e \in DOMAIN es2 : TRUE
            r == from_variable_description(fragment, entity)
        IN  /\ rdesc' = [rdesc EXCEPT !.entities[id].variables[k] = r.description]
            /\ last' = [op |-> "variable", input |-> fragment,
                        status |-> IF r.raised THEN r.error ELSE "ok",
                        result |-> r]
    /\ UNCHANGED <<es2, rels2>>
    /\ UNCHANGED <<writerVars, entityset0, oldfs>>

Next ==
    \/ write_data_description
    \/ ReadDataDescription
    \/ FromEntityDescription
    \/ FromRelationshipDescription
    \/ FromVariableDescription

Spec == Init /\ [][Next]_vars

----------------------------------------------------------------------------
(* Properties.                                                             *)

\* The format tag and the file name the documentation promises for kwargs.
PromisedFormat ==
    IF "format" \notin DOMAIN kwargs THEN "csv"
    ELSE IF kwargs["format"] = "CSV" THEN "csv" ELSE kwargs["format"]

Supported == PromisedFormat \in {"csv", "parquet", "pickle"}

PromisedName(id) ==
    IF "compression" \in DOMAIN kwargs
    THEN id \o "." \o PromisedFormat \o "." \o kwargs["compression"]
    ELSE id \o "." \o PromisedFormat

Ids(es) == {es.entities[k].id : k \in DOMAIN es.entities}

EntityOf(es, id) == CHOOSE e \in Range(es.entities) : e.id = id

VariableIds(entity) == {entity.variables[k].id : k \in DOMAIN entity.variables}

\* The columns of a table that are declared variables, in table order.
Declared(df, ids) ==
    SelectSeq(df.columns, LAMBDA c : c.label.kind = "str" /\ c.label.text \in ids)

PromisedFiles == {<<"data", PromisedName(id)>> : id \in Ids(entityset0)}

\* C1: write_entity_data with format parquet leaves entity.df as it was:
\* every entity already written still has the values and the column labels
\* it had before the call.
C1_TableUnchanged ==
    PromisedFormat = "parquet" =>
        \A k \in 1..i : entityset.entities[k].df = entityset0.entities[k].df

\* A description read from the finished write, every entity fragment loaded
\* from the files and every relationship fragment resolved.
RoundTripDone ==
    /\ pc = "done"
    /\ rdesc.loaded
    /\ rdesc.from_disk
    /\ DOMAIN es2 = DOMAIN rdesc.entities
    /\ \A k \in DOMAIN rdesc.relationships :
        Relationship(rdesc.relationships[k].parent, rdesc.relationships[k].child) \in rels2

\* The collection read back equals the collection written: identifiers,
\* variables and their type tags, relationship endpoints, declared columns.
RoundTripEqual ==
    /\ DOMAIN es2 = Ids(entityset0)
    /\ \A id \in DOMAIN es2 :
        LET e0 == EntityOf(entityset0, id)
        IN  /\ [k \in DOMAIN es2[id].variables |->
                    <<es2[id].variables[k].id, es2[id].variables[k].type.type_string>>]
               = [k \in DOMAIN e0.variables |-> <<e0.variables[k].id, e0.variables[k].tag>>]
            /\ Declared(es2[id].df, VariableIds(e0)) = Declared(e0.df, VariableIds(e0))
    /\ rels2 = {Relationship(r.parent, r.child) : r \in Range(entityset0.relationships)}

\* C2 as stated: for every collection and every format the round trip
\* yields an equal collection.
C2_RoundTripAnyFormat == RoundTripDone => RoundTripEqual

\* Every object-typed declared column of the collection holds text only.
TextOnly ==
    \A e \in Range(entityset0.entities) :
        \A c \in Range(Declared(e.df, VariableIds(e))) :
            c.dtype = "object" => \A r \in DOMAIN c.cells : c.cells[r].kind = "str"

\* C2, amended: the round trip yields an equal collection for the pickle
\* format, and for the parquet format when every object-typed declared
\* column holds text only.
C2_RoundTrip ==
    (RoundTripDone /\ (PromisedFormat = "pickle" \/ (PromisedFormat = "parquet" /\ TextOnly)))
        => RoundTripEqual

C2_Witness ==
    /\ RoundTripDone
    /\ PromisedFormat = "parquet"
    /\ TextOnly
    /\ Len(entityset0.relationships) > 0
    /\ \E e \in Range(entityset0.entities) : \E c \in Range(e.df.columns) : c.dtype = "object"

\* C3 as stated: at every point of a write, if data_description.json
\* exists at the target then so does the table file of every entity.
C3_ManifestImpliesTables ==
    (pc # "start" /\ ManifestPath \in fs) => PromisedFiles \subseteq fs

ResetDone == pc \in {"makedirs", "makedirs_data", "describe", "loop", "done", "raised"}

\* C3, amended: nothing is removed once a table file is written, a table
\* file is written only after the reset and into an existing data/
\* directory, the manifest only after every table file; hence from the end
\* of the reset on, if data_description.json exists then so does the table
\* file of every entity.
C3_Ordered ==
    /\ [](ResetDone /\ ManifestPath \in fs => PromisedFiles \subseteq fs)
    /\ [][/\ (fs \ fs' # {}) => (pc = "rmtree" /\ i = 0 /\ PromisedFiles \cap fs' \subseteq oldfs)
          /\ (fs' \ fs) \cap PromisedFiles # {} =>
                (ResetDone /\ {Root, DataDir} \subseteq fs /\ ManifestPath \notin fs')
          /\ ManifestPath \in fs' \ fs => PromisedFiles \subseteq fs]_vars

C3_Witness ==
    /\ pc = "done"
    /\ ManifestPath \in oldfs
    /\ Len(entityset.entities) > 1
    /\ PromisedFiles \subseteq fs

\* C4: after a write has completed, the target holds data_description.json,
\* data/ and one table file per entity, and nothing of the previous tree.
C4_Overwrite ==
    pc = "done" => fs = {Root, ManifestPath, DataDir} \cup PromisedFiles

C4_Witness ==
    /\ pc = "done"
    /\ <<"old", "stale.bin">> \in oldfs
    /\ "compression" \in DOMAIN kwargs
    /\ Len(entityset.entities) > 0

\* C5: a write with an unsupported format ends in the error that lists the
\* supported formats, writes no table file and no manifest, and leaves
\* everything else at the target as it was.
C5_UnsupportedRejected ==
    (~Supported /\ pc \in {"done", "raised"}) =>
        /\ pc = "raised"
        /\ err = "must be one of the following formats: csv, pickle, parquet"
        /\ ManifestPath \notin fs \ oldfs
        /\ PromisedFiles \cap fs \subseteq oldfs
        /\ fs \ {Root, DataDir} = oldfs \ {Root, DataDir}

TagOf(type) == IF type.is_str THEN type.str ELSE type.dict["value"]

OptionsOf(type) ==
    IF type.is_str THEN EmptyDict
    ELSE [k \in (DOMAIN type.dict) \ {"value"} |-> type.dict[k]]

HasTag(type) == type.is_str \/ "value" \in DOMAIN type.dict

KnownTags == {"index", "id", "numeric", "categorical"}

DescriptorOf(tag) ==
    IF tag \in KnownTags THEN VARIABLE_TYPES[tag] ELSE VARIABLE_TYPES["None"]

\* C7: a type field that is the string T and one that is {value: T, ...}
\* resolve to the descriptor of T; an instance is constructed with no
\* options from the first, with exactly the other keys from the second.
C7_Polymorphism ==
    /\ (last.op = "variable" /\ last.status = "ok") =>
        /\ last.result.variable = DescriptorOf(TagOf(last.input.type))
        /\ last.result.instance
        /\ last.result.kwargs = OptionsOf(last.input.type)
    /\ (last.op = "entity" /\ last.status = "ok") =>
        \A k \in DOMAIN last.input.variables :
            es2[last.id].variables[k].type = DescriptorOf(TagOf(last.input.variables[k].type))

C7_Witness ==
    /\ last.op = "variable"
    /\ last.status = "ok"
    /\ ~last.input.type.is_str
    /\ last.result.kwargs # EmptyDict
    /\ \E id \in DOMAIN es2 : \E k \in DOMAIN es2[id].variables :
        /\ es2[id].variables[k].type = last.result.variable
        /\ rdesc.entities[id].variables[k].type.is_str

\* C8: a variable fragment whose tag is not in the registry resolves to
\* the default descriptor, and an entity fragment holding such a variable
\* is registered all the same.
C8_Leniency ==
    /\ (last.op = "variable" /\ HasTag(last.input.type)
            /\ TagOf(last.input.type) \notin KnownTags) =>
        /\ last.status = "ok"
        /\ last.result.variable = [cls |-> "Variable", type_string |-> "None"]
    /\ (last.op = "entity"
            /\ \A k \in DOMAIN last.input.variables : HasTag(last.input.variables[k].type)) =>
        /\ last.status \in {"ok", "IOError"}
        /\ ~last.from_disk => last.status = "ok"
        /\ last.status = "ok" =>
            /\ last.id \in DOMAIN es2
            /\ \A k \in DOMAIN last.input.variables :
                TagOf(last.input.variables[k].type) \notin KnownTags =>
                    es2[last.id].variables[k].type = [cls |-> "Variable", type_string |-> "None"]

C8_Witness ==
    /\ last.op = "entity"
    /\ last.status = "ok"
    /\ \E k \in DOMAIN last.input.variables :
        /\ HasTag(last.input.variables[k].type)
        /\ TagOf(last.input.variables[k].type) = "mystery"
        /\ es2[last.id].variables[k].type.cls = "Variable"

\* C9: the manifest of a completed write has one fragment per entity, whose
\* loading_info holds the location, the lower-cased format, the writer
\* options and the dtype of every table column that is a declared variable.
C9_LoadingInfo ==
    pc = "done" =>
        /\ DOMAIN manifest.entities = Ids(entityset0)
        /\ \A id \in Ids(entityset0) :
            LET info == manifest.entities[id].loading_info
                e0 == EntityOf(entityset0, id)
                declared == Declared(e0.df, VariableIds(e0))
            IN  /\ DOMAIN info = {"location", "type", "params", "properties"}
                /\ info.location = "data/" \o PromisedName(id)
                /\ info.type = PromisedFormat
                /\ info.params = [k \in (DOMAIN kwargs) \ {"format"} |-> kwargs[k]]
                /\ DOMAIN info.properties.dtypes = {c.label.text : c \in Range(declared)}
                /\ \A c \in Range(declared) : info.properties.dtypes[c.label.text] = c.dtype

C9_Witness ==
    /\ pc = "done"
    /\ "compression" \in DOMAIN kwargs
    /\ "format" \in DOMAIN kwargs
    /\ kwargs["format"] = "CSV"
    /\ \E e \in Range(entityset0.entities) : Len(Declared(e.df, VariableIds(e))) < Len(e.df.columns)

\* C10: from_variable_description and from_entity_description leave the
\* fragment they are given unchanged, and so succeed on it every time.
C10_FragmentUnchanged ==
    /\ last.op = "variable" =>
        /\ last.status = "ok"
        /\ last.result.description = last.input
    /\ (last.op = "entity" /\ last.status \notin {"IOError", "ValueError"}) =>
        /\ last.status = "ok"
        /\ rdesc.entities[last.id] = last.input

====
